---- MODULE Spec2Model ----
(***************************************************************************)
(* A model of GM_bot (src/main.py): the chat_history table with            *)
(* save_message / get_chat_history / clear_chat_history, and the reply     *)
(* rendering of process_content.                                           *)
(*                                                                         *)
(* Python strings are sequences of one-character strings (the backtick is  *)
(* the string "backtick").  Python indices are kept 0-based in the state   *)
(* (i, j, backtick_end); At and Slice translate them to TLA+'s 1-based     *)
(* sequences.                                                              *)
(***************************************************************************)
EXTENDS Integers, Sequences, FiniteSets, TLC

VARIABLES
    db,      \* the chat_history table: a set of rows, each with its rowid
    call,    \* the last get_chat_history call and the list it returned, while
             \* the table is as that call read it
    written, \* history variable: for each session, the turns save_message
             \* wrote since the session was last cleared, in call order
    \* the locals of process_content from the reply on (lines 186-277)
    msg_chat_id,         \* message.chat.id
    loading_message,     \* the text of the loading message in the chat
    full_response,       \* response.text, the raw reply
    rpc,                 \* the position in the rendering code
    lines,               \* Branch A: formatted_response.split('\n'), rewritten in place
    i,                   \* Branch A: the line index; Branch B: the character index
    in_code_block,       \* Branch A: the inside-fenced-block flag
    j,                   \* Branch A: the character index in the current line
    new_line,            \* Branch A: the rewritten current line
    branch,              \* which arm of the fence test is taken: "A", "B"
    formatted_response,  \* the display string
    original_response,   \* the string that is saved to the table
    inv      \* the invocations of process_content (lines 136-277): for each,
             \* its position, its message and its locals

\* ------------------------------------------------------------------------
\* Bounds of the model

\* rowids run from 1 to MaxRowid: the table never holds more rows than that
MaxRowid == 3
\* get_chat_history is called with max_tokens in -1 .. MaxBudget, or with
\* its default
MaxBudget == 7
\* a raw reply is made of at most MaxPieces pieces (see Pieces)
MaxPieces == 5
\* invocations of process_content that can be in flight together
MaxProcs == 2

\* ------------------------------------------------------------------------
\* Python string primitives

\* s[k]
At(s, k) == s[k + 1]

\* s[a:b], for 0 <= a <= b <= len(s)
Slice(s, a, b) == SubSeq(s, a + 1, b)

\* the characters str.split() treats as separators
IsSpace(c) == c \in {" ", "\n", "\t"}

\* len(s.split()): the number of maximal runs of non-whitespace characters
RECURSIVE CountTokensFrom(_, _, _)
CountTokensFrom(s, k, inToken) ==
    IF k > Len(s) THEN 0
    ELSE IF IsSpace(s[k]) THEN CountTokensFrom(s, k + 1, FALSE)
    ELSE (IF inToken THEN 0 ELSE 1) + CountTokensFrom(s, k + 1, TRUE)

SplitLen(s) == CountTokensFrom(s, 1, FALSE)

\* Reversed with the reversal left out
Reversed_Identity(xs) == xs

\* list(reversed(xs))
Reversed(xs) == [k \in 1..Len(xs) |-> xs[Len(xs) + 1 - k]]

\* ------------------------------------------------------------------------
\* The values stored in the table

ChatIds == {1, 2}

RoleUser == <<"u", "s", "e", "r">>
RoleBot == <<"b", "o", "t">>
TypeText == <<"t", "e", "x", "t">>
TypeImage == <<"i", "m", "a", "g", "e">>
TypeAudio == <<"a", "u", "d", "i", "o">>
\* the placeholder content of a photo turn (a Cyrillic word in the source)
ContentPhoto == <<"F", "o", "t", "o">>
\* the placeholder content of an audio turn (a Cyrillic word in the source)
ContentAudio == <<"A", "u", "d", "i", "o">>

\* a NULL type column
Null == <<"N", "U", "L", "L">>

\* message texts of one and of two whitespace-delimited tokens
TextOne == <<"a">>
TextTwo == <<"a", " ", "\n", "b">>

\* the (role, content, type) triples save_message is called with
Messages ==
    { [role |-> RoleUser, content |-> TextOne, type |-> TypeText],
      [role |-> RoleUser, content |-> TextTwo, type |-> TypeText],
      [role |-> RoleBot, content |-> TextTwo, type |-> TypeText],
      [role |-> RoleUser, content |-> ContentPhoto, type |-> TypeImage] }

\* max_tokens=1000000
DefaultMaxTokens == 1000000

Budgets == (0 - 1)..MaxBudget \cup {DefaultMaxTokens}

\* ------------------------------------------------------------------------
\* save_message, clear_chat_history

\* the rowid SQLite gives a new row: one more than the largest in the table
NextRowid(table) ==
    IF table = {} THEN 1
    ELSE (CHOOSE r \in {x.rowid : x \in table} :
              \A q \in {x.rowid : x \in table} : q <= r) + 1

\* INSERT INTO chat_history (chat_id, role, content, type) VALUES (?, ?, ?, ?)
Insert(table, chat_id, role, content, msg_type) ==
    table \cup { [rowid |-> NextRowid(table), chat_id |-> chat_id,
                  role |-> role, content |-> content, type |-> msg_type] }

\* Delete without its WHERE clause
Delete_All(table, chat_id) == {}

\* DELETE FROM chat_history WHERE chat_id = ?
Delete(table, chat_id) == { x \in table : x.chat_id # chat_id }

\* ------------------------------------------------------------------------
\* get_chat_history

\* COALESCE(type, 'text')
Coalesce(t) == IF t = Null THEN TypeText ELSE t

\* SelectWhere without its WHERE clause
SelectWhere_NoFilter(table, chat_id) == table

\* WHERE chat_id = ?
SelectWhere(table, chat_id) == { x \in table : x.chat_id = chat_id }

\* ORDER BY rowid DESC: the row that comes first among rs
FirstDesc(rs) == CHOOSE x \in rs : \A y \in rs : y.rowid <= x.rowid

\* SELECT role, content, COALESCE(type, 'text') ... ORDER BY rowid DESC
RECURSIVE OrderDesc(_)
OrderDesc(rs) ==
    IF rs = {} THEN <<>>
    ELSE LET x == FirstDesc(rs)
         IN  <<[role |-> x.role, content |-> x.content, type |-> Coalesce(x.type)]>>
                 \o OrderDesc(rs \ {x})

FetchAll(table, chat_id) == OrderDesc(SelectWhere(table, chat_id))

\* text = f"{role}: {content} [{msg_type}]"
RowText(row) ==
    row.role \o <<":", " ">> \o row.content \o <<" ", "[">> \o row.type \o <<"]">>

\* tokens = len(text.split())
Tokens(row) == SplitLen(RowText(row))

\* OverBudget testing the budget before the turn's own cost is added
OverBudget_BeforeAdd(token_count, tokens, max_tokens) == token_count > max_tokens

\* OverBudget off by one: a turn that fills the budget exactly is refused
OverBudget_OffByOne(token_count, tokens, max_tokens) == token_count + tokens >= max_tokens

\* if token_count + tokens > max_tokens: break
OverBudget(token_count, tokens, max_tokens) == token_count + tokens > max_tokens

\* HistoryLoop appending the turn before it tests the budget
RECURSIVE HistoryLoop_AppendFirst(_, _, _, _, _)
HistoryLoop_AppendFirst(rows, k, token_count, history, max_tokens) ==
    IF k > Len(rows) THEN history
    ELSE IF token_count > max_tokens THEN history
    ELSE HistoryLoop_AppendFirst(rows, k + 1, token_count + Tokens(rows[k]),
                                 Append(history, rows[k]), max_tokens)

\* the for loop over rows, from the k-th row on
RECURSIVE HistoryLoop(_, _, _, _, _)
HistoryLoop(rows, k, token_count, history, max_tokens) ==
    IF k > Len(rows) THEN history
    ELSE IF OverBudget(token_count, Tokens(rows[k]), max_tokens) THEN history
    ELSE HistoryLoop(rows, k + 1, token_count + Tokens(rows[k]),
                     Append(history, rows[k]), max_tokens)

get_chat_history(table, chat_id, max_tokens) ==
    Reversed(HistoryLoop(FetchAll(table, chat_id), 1, 0, <<>>, max_tokens))

\* ------------------------------------------------------------------------
\* The table under save_message, clear_chat_history and get_chat_history

NoCall == [op |-> "none"]

renderVars ==
    <<msg_chat_id, loading_message, full_response, rpc, lines, i, in_code_block,
      j, new_line, branch, formatted_response, original_response>>

vars == <<db, call, written, renderVars, inv>>

\* a local that is not assigned yet
None == <<"None">>

\* process_content is not rendering
RenderIdle ==
    /\ msg_chat_id = 0
    /\ loading_message = None
    /\ full_response = None
    /\ rpc = "idle"
    /\ lines = <<>>
    /\ i = 0
    /\ in_code_block = FALSE
    /\ j = 0
    /\ new_line = None
    /\ branch = "none"
    /\ formatted_response = None
    /\ original_response = None

\* the turn save_message(chat_id, role, content, msg_type) writes
Turn(role, content, msg_type) == [role |-> role, content |-> content, type |-> msg_type]

Procs == 1..MaxProcs

\* an invocation that has not begun: no message, no local assigned
IdleInvocation ==
    [pc |-> "idle", chat_id |-> 0, content_type |-> "none", text |-> None,
     loading_message |-> None, history |-> <<>>, content |-> <<>>,
     full_response |-> None, formatted_response |-> None,
     original_response |-> None, e |-> "none",
     read_at |-> 0, user_row |-> 0, reply_row |-> 0, alone |-> TRUE]

NoInvocations == [p \in Procs |-> IdleInvocation]

InitStore ==
    /\ inv = NoInvocations
    /\ db = {}
    /\ call = NoCall
    /\ written = [c \in ChatIds |-> <<>>]
    /\ RenderIdle

SaveMessage(c, m) ==
    /\ NextRowid(db) <= MaxRowid
    /\ db' = Insert(db, c, m.role, m.content, m.type)
    /\ written' = [written EXCEPT ![c] = Append(@, Turn(m.role, m.content, m.type))]
    /\ call' = NoCall
    /\ UNCHANGED <<renderVars, inv>>

ClearChatHistory(c) ==
    /\ db' = Delete(db, c)
    /\ written' = [written EXCEPT ![c] = <<>>]
    /\ call' = NoCall
    /\ UNCHANGED <<renderVars, inv>>

GetChatHistory(c, b) ==
    /\ call' = [op |-> "get_chat_history", chat_id |-> c, max_tokens |-> b,
                history |-> get_chat_history(db, c, b)]
    /\ UNCHANGED <<db, written, renderVars, inv>>

NextStore ==
    \/ \E c \in ChatIds, m \in Messages : SaveMessage(c, m)
    \/ \E c \in ChatIds : ClearChatHistory(c)
    \/ \E c \in ChatIds, b \in Budgets : GetChatHistory(c, b)

SpecStore == InitStore /\ [][NextStore]_vars

\* ------------------------------------------------------------------------
\* Claims about get_chat_history (checked under SpecStore)

\* the turns of session c, oldest first
RECURSIVE Ascending(_)
Ascending(rs) ==
    IF rs = {} THEN <<>>
    ELSE LET x == CHOOSE y \in rs : \A z \in rs : y.rowid <= z.rowid
         IN  <<[role |-> x.role, content |-> x.content, type |-> x.type]>>
                 \o Ascending(rs \ {x})

Turns(c) == Ascending({ x \in db : x.chat_id = c })

\* cost(turn): the number of whitespace-delimited tokens of "<role>: <content> [<kind>]"
Cost(turn) == Tokens(turn)

RECURSIVE TotalCost(_)
TotalCost(turns) ==
    IF turns = <<>> THEN 0 ELSE Cost(Head(turns)) + TotalCost(Tail(turns))

Returned == call.op = "get_chat_history"

\* the k newest turns of ts, oldest first
Newest(ts, k) == SubSeq(ts, Len(ts) - k + 1, Len(ts))

IsSuffix(h, ts) == Len(h) <= Len(ts) /\ h = Newest(ts, Len(h))

\* C1 as stated: for every transcript and every budget, the total cost of the
\* returned window never exceeds the budget.
C1_CostWithinAnyBudget ==
    Returned => TotalCost(call.history) <= call.max_tokens

\* C1 amended: for every budget >= 0 the total cost of the returned window
\* never exceeds the budget; and for every budget, a newest turn whose own
\* cost exceeds the budget yields an empty window.
C1_CostWithinBudget ==
    Returned =>
        /\ call.max_tokens >= 0 => TotalCost(call.history) <= call.max_tokens
        /\ LET ts == Turns(call.chat_id)
           IN  (ts # <<>> /\ Cost(ts[Len(ts)]) > call.max_tokens)
                   => call.history = <<>>

\* a window of at least one turn that leaves older turns out, under a budget >= 0
C1_Witness ==
    /\ Returned
    /\ call.max_tokens >= 0
    /\ call.history # <<>>
    /\ Len(call.history) < Len(Turns(call.chat_id))

\* C2: the returned window is a contiguous suffix of the session's turns in
\* chronological order: the k newest turns, oldest first, none skipped,
\* reordered or taken from another session.
C2_WindowIsSuffix ==
    Returned => IsSuffix(call.history, Turns(call.chat_id))

\* a window of two different turns, written before and after a turn of
\* another session
C2_Witness ==
    /\ Returned
    /\ Len(call.history) = 2
    /\ call.history[1] # call.history[2]
    /\ \E x, y, z \in db :
           /\ x.chat_id = call.chat_id
           /\ y.chat_id # call.chat_id
           /\ z.chat_id = call.chat_id
           /\ x.rowid < y.rowid
           /\ y.rowid < z.rowid

\* C3: the returned window is the largest suffix that fits: it is the whole
\* transcript of the session, or adding the next older turn would make the
\* total cost exceed the budget.
C3_WindowIsLargest ==
    Returned =>
        LET ts == Turns(call.chat_id)
            h == call.history
        IN  /\ IsSuffix(h, ts)
            /\ \/ Len(h) = Len(ts)
               \/ TotalCost(h) + Cost(ts[Len(ts) - Len(h)]) > call.max_tokens

\* a window that stops short because the next older turn does not fit, although
\* that turn alone would fit the budget
C3_Witness ==
    /\ Returned
    /\ call.history # <<>>
    /\ LET ts == Turns(call.chat_id)
           h == call.history
       IN  /\ Len(h) < Len(ts)
           /\ Cost(ts[Len(ts) - Len(h)]) <= call.max_tokens
           /\ TotalCost(h) + Cost(ts[Len(ts) - Len(h)]) > call.max_tokens

\* C4: for every budget <= 0 and every transcript, the empty one included,
\* get_chat_history returns an empty window.
C4_EmptyWindowWhenNoBudget ==
    (Returned /\ call.max_tokens <= 0) => call.history = <<>>

\* a call with budget 0 on a session that holds turns
C4_Witness ==
    /\ Returned
    /\ call.max_tokens = 0
    /\ Turns(call.chat_id) # <<>>
    /\ call.history = <<>>

\* C13: after any sequence of save_message and clear_chat_history calls on any
\* sessions, reading a session with a budget large enough for all its turns
\* returns its turns in exactly the order they were written since the last
\* clear of that session.
C13_ReadOrderIsWriteOrder ==
    (Returned /\ call.max_tokens >= TotalCost(written[call.chat_id])) =>
        call.history = written[call.chat_id]

\* two different turns are read back from a session in the order they were
\* written, after rows written before them were cleared
C13_Witness ==
    /\ Returned
    /\ call.max_tokens >= TotalCost(written[call.chat_id])
    /\ Len(call.history) = 2
    /\ call.history[1] # call.history[2]
    /\ call.history = written[call.chat_id]
    /\ \A x \in db : x.rowid > 1

\* the rows of session c
SessionRows(c) == { x \in db : x.chat_id = c }

\* C14: clear_chat_history(s) leaves session s with no turns and leaves the
\* turns of every other session unchanged; no operation other than a clear
\* ever removes a stored turn.
C14_OnlyClearRemoves ==
    [][ /\ \A c \in ChatIds :
               ClearChatHistory(c) =>
                   /\ Turns(c)' = <<>>
                   /\ \A d \in ChatIds \ {c} : SessionRows(d)' = SessionRows(d)
        /\ (\A c \in ChatIds : ~ClearChatHistory(c)) => db \subseteq db'
      ]_vars

\* a session was cleared (the row with rowid 1 is gone) and a row of another
\* session, written before the clear, is still there
C14_Witness ==
    /\ \E c \in ChatIds : SessionRows(c) = {} /\ written[c] = <<>>
    /\ \A x \in db : x.rowid # 1
    /\ \E x \in db : x.rowid = 2

\* ------------------------------------------------------------------------
\* The rendering of a reply (process_content, lines 190-265)

\* the backtick character, which a TLA+ string cannot hold
Backtick == "backtick"

\* "```"
Fence == <<Backtick, Backtick, Backtick>>
\* "```python"
FencePython == Fence \o <<"p", "y", "t", "h", "o", "n">>

\* s.startswith(prefix)
StartsWith(s, prefix) ==
    Len(s) >= Len(prefix) /\ SubSeq(s, 1, Len(prefix)) = prefix

\* sub in s
Contains(s, sub) ==
    \E k \in 0..(Len(s) - Len(sub)) : Slice(s, k, k + Len(sub)) = sub

\* s.find(c, start): the first index >= start that holds c, or -1
Find(s, c, start) ==
    LET hits == { k \in start..(Len(s) - 1) : At(s, k) = c }
    IN  IF hits = {} THEN 0 - 1
        ELSE CHOOSE k \in hits : \A h \in hits : k <= h

\* s.split('\n')
RECURSIVE SplitLines(_)
SplitLines(s) ==
    LET nl == Find(s, "\n", 0)
    IN  IF nl = 0 - 1 THEN <<s>>
        ELSE <<Slice(s, 0, nl)>> \o SplitLines(Slice(s, nl + 1, Len(s)))

\* '\n'.join(ls)
RECURSIVE JoinLines(_)
JoinLines(ls) ==
    IF ls = <<>> THEN <<>>
    ELSE IF Len(ls) = 1 THEN ls[1]
    ELSE ls[1] \o <<"\n">> \o JoinLines(Tail(ls))

\* HasFence looking for a line that is a bare fence
HasFence_BareLine(s) ==
    LET ls == SplitLines(s) IN \E k \in 1..Len(ls) : ls[k] = Fence

\* if "```" in formatted_response
HasFence(s) == Contains(s, Fence)

\* if line.startswith("```")
IsFenceLine(line) == StartsWith(line, Fence)

\* FenceLine tagging a bare closing fence too
FenceLine_TagsClosing(line, flag) == IF line = Fence THEN FencePython ELSE line

\* FenceLine rewriting every fence line, tagged or not
FenceLine_Normalises(line, flag) == IF flag THEN FencePython ELSE Fence

\* lines 204-207: what a fence line becomes, given the flag after its toggle
FenceLine(line, flag) ==
    IF line = Fence /\ ~flag THEN Fence
    ELSE IF line = Fence /\ flag THEN FencePython
    ELSE line

\* ScansLine with the test of the flag left out
ScansLine_Always(flag) == TRUE

\* elif not in_code_block: the line is scanned for inline code and escaped
ScansLine(flag) == ~flag

\* Escape escaping the asterisk as well
Escape_Asterisk(c) ==
    IF c = "_" THEN <<"\\", "_">>
    ELSE IF c = "[" THEN <<"\\", "[">>
    ELSE IF c = "*" THEN <<"\\", "*">>
    ELSE <<c>>

\* lines 228-233 and 258-263: a character outside inline code
Escape(c) ==
    IF c = "_" THEN <<"\\", "_">>
    ELSE IF c = "[" THEN <<"\\", "[">>
    ELSE <<c>>

\* lines 214 and 245: a backtick that is not last and not followed by a backtick
InlineStart(s, k) == k < Len(s) - 1 /\ At(s, k) = Backtick /\ At(s, k + 1) # Backtick

\* StepA escaping a backtick that is never closed, as Branch B does
StepA_EscapesBacktick(line, k) ==
    IF InlineStart(line, k)
    THEN LET backtick_end == Find(line, Backtick, k + 1)
         IN  IF backtick_end # 0 - 1
             THEN [out |-> Slice(line, k, backtick_end + 1), next |-> backtick_end + 1]
             ELSE [out |-> <<"\\", Backtick>>, next |-> k + 1]
    ELSE [out |-> Escape(At(line, k)), next |-> k + 1]

\* StepA copying only the opening backtick of an inline code span
StepA_SpanEscaped(line, k) ==
    IF InlineStart(line, k)
    THEN [out |-> <<At(line, k)>>, next |-> k + 1]
    ELSE [out |-> Escape(At(line, k)), next |-> k + 1]

\* lines 214-234: one iteration of the while loop of Branch A at index k
StepA(line, k) ==
    IF InlineStart(line, k)
    THEN LET backtick_end == Find(line, Backtick, k + 1)
         IN  IF backtick_end # 0 - 1
             THEN [out |-> Slice(line, k, backtick_end + 1), next |-> backtick_end + 1]
             ELSE [out |-> <<At(line, k)>>, next |-> k + 1]
    ELSE [out |-> Escape(At(line, k)), next |-> k + 1]

\* StepB without the i += 1 of line 255
StepB_NoAdvance(s, k) ==
    IF InlineStart(s, k)
    THEN LET backtick_end == Find(s, Backtick, k + 1)
         IN  IF backtick_end # 0 - 1
             THEN [out |-> Slice(s, k, backtick_end + 1), next |-> backtick_end + 1]
             ELSE [out |-> <<"\\", Backtick>>, next |-> k]
    ELSE [out |-> Escape(At(s, k)), next |-> k + 1]

\* lines 245-264: one iteration of the while loop of Branch B at index k
StepB(s, k) ==
    IF InlineStart(s, k)
    THEN LET backtick_end == Find(s, Backtick, k + 1)
         IN  IF backtick_end # 0 - 1
             THEN [out |-> Slice(s, k, backtick_end + 1), next |-> backtick_end + 1]
             ELSE [out |-> <<"\\", Backtick>>, next |-> k + 1]
    ELSE [out |-> Escape(At(s, k)), next |-> k + 1]

\* lines 211-236: the while loop over a line, from index k on
RECURSIVE ScanA(_, _, _)
ScanA(line, k, acc) ==
    IF k < Len(line) THEN ScanA(line, StepA(line, k).next, acc \o StepA(line, k).out)
    ELSE acc

\* lines 242-264: the while loop over the reply, from index k on
RECURSIVE ScanB(_, _, _)
ScanB(s, k, acc) ==
    IF k < Len(s) THEN ScanB(s, StepB(s, k).next, acc \o StepB(s, k).out)
    ELSE acc

\* lines 199-236: the for loop over the lines, from line k on
RECURSIVE ForLines(_, _, _)
ForLines(ls, k, flag) ==
    IF k >= Len(ls) THEN <<>>
    ELSE IF IsFenceLine(At(ls, k))
         THEN <<FenceLine(At(ls, k), ~flag)>> \o ForLines(ls, k + 1, ~flag)
    ELSE IF ScansLine(flag)
         THEN <<ScanA(At(ls, k), 0, <<>>)>> \o ForLines(ls, k + 1, flag)
    ELSE <<At(ls, k)>> \o ForLines(ls, k + 1, flag)

\* lines 190-265: formatted_response as a function of full_response
RenderDisplay(raw) ==
    IF HasFence(raw) THEN JoinLines(ForLines(SplitLines(raw), 0, FALSE))
    ELSE ScanB(raw, 0, <<>>)

\* SavedReply saving the display string
SavedReply_Display(original, formatted) == formatted

\* line 271: the content that is saved as the bot's turn
SavedReply(original, formatted) == original

\* ------------------------------------------------------------------------
\* Rendering, one step of the code at a time

\* the raw replies: every string of at most MaxPieces pieces
Pieces ==
    { Fence, <<Backtick>>, <<"_">>, <<"[">>, <<"]">>, <<"*">>, <<"a">>, <<"\n">> }

RECURSIVE Flatten(_)
Flatten(ps) == IF ps = <<>> THEN <<>> ELSE Head(ps) \o Flatten(Tail(ps))

Inputs == { Flatten(ps) : ps \in UNION { [1..n -> Pieces] : n \in 0..MaxPieces } }

\* the text of the loading message (line 138; Cyrillic in the source)
LoadingText == <<"loading">>
\* the text of the failure notice (line 275; Cyrillic in the source)
FailureText == <<"failure">>

\* lines 137-186 are done: the loading message is shown, the user's turn is
\* in the table and the model has answered
InitRender ==
    /\ inv = NoInvocations
    /\ msg_chat_id \in ChatIds
    /\ db = Insert({}, msg_chat_id, RoleUser, TextOne, TypeText)
    /\ written = [c \in ChatIds |->
                      IF c = msg_chat_id THEN <<Turn(RoleUser, TextOne, TypeText)>>
                      ELSE <<>>]
    /\ call = NoCall
    /\ loading_message = LoadingText
    /\ full_response \in Inputs
    /\ rpc = "detect"
    /\ lines = <<>>
    /\ i = 0
    /\ in_code_block = FALSE
    /\ j = 0
    /\ new_line = None
    /\ branch = "none"
    /\ formatted_response = None
    /\ original_response = None

\* lines 190, 193-199: the reply holds a fence
DetectFence ==
    /\ rpc = "detect"
    /\ HasFence(full_response)
    /\ branch' = "A"
    /\ formatted_response' = full_response
    /\ original_response' = full_response
    /\ lines' = SplitLines(full_response)
    /\ in_code_block' = FALSE
    /\ i' = 0
    /\ rpc' = "for"
    /\ UNCHANGED <<inv, db, call, written, msg_chat_id, loading_message, full_response, j,
                   new_line>>

\* lines 190, 193, 239-243: the reply holds no fence
DetectNoFence ==
    /\ rpc = "detect"
    /\ ~HasFence(full_response)
    /\ branch' = "B"
    /\ formatted_response' = <<>>
    /\ i' = 0
    /\ rpc' = "whileB"
    /\ UNCHANGED <<inv, db, call, written, msg_chat_id, loading_message, full_response,
                   lines, in_code_block, j, new_line, original_response>>

\* lines 200-207: a line that starts with a fence
FenceLineStep ==
    /\ rpc = "for"
    /\ i < Len(lines)
    /\ IsFenceLine(At(lines, i))
    /\ in_code_block' = ~in_code_block
    /\ lines' = [lines EXCEPT ![i + 1] = FenceLine(At(lines, i), ~in_code_block)]
    /\ i' = i + 1
    /\ UNCHANGED <<inv, db, call, written, msg_chat_id, loading_message, full_response, rpc,
                   j, new_line, branch, formatted_response,
                   original_response>>

\* lines 200-201, 208-212: a line outside a fenced block; its scan starts
ProseLineStart ==
    /\ rpc = "for"
    /\ i < Len(lines)
    /\ ~IsFenceLine(At(lines, i))
    /\ ScansLine(in_code_block)
    /\ new_line' = <<>>
    /\ j' = 0
    /\ rpc' = "whileA"
    /\ UNCHANGED <<inv, db, call, written, msg_chat_id, loading_message, full_response,
                   lines, i, in_code_block, branch, formatted_response,
                   original_response>>

\* lines 200-201, 208: a line inside a fenced block is left as it is
CodeLineStep ==
    /\ rpc = "for"
    /\ i < Len(lines)
    /\ ~IsFenceLine(At(lines, i))
    /\ ~ScansLine(in_code_block)
    /\ i' = i + 1
    /\ UNCHANGED <<inv, db, call, written, msg_chat_id, loading_message, full_response, rpc,
                   lines, in_code_block, j, new_line, branch,
                   formatted_response, original_response>>

\* lines 213-234: one iteration of the while loop over the line
WhileA ==
    /\ rpc = "whileA"
    /\ j < Len(At(lines, i))
    /\ new_line' = new_line \o StepA(At(lines, i), j).out
    /\ j' = StepA(At(lines, i), j).next
    /\ UNCHANGED <<inv, db, call, written, msg_chat_id, loading_message, full_response, rpc,
                   lines, i, in_code_block, branch, formatted_response,
                   original_response>>

\* lines 213, 236: the line is scanned to its end
EndLine ==
    /\ rpc = "whileA"
    /\ ~(j < Len(At(lines, i)))
    /\ lines' = [lines EXCEPT ![i + 1] = new_line]
    /\ i' = i + 1
    /\ rpc' = "for"
    /\ UNCHANGED <<inv, db, call, written, msg_chat_id, loading_message, full_response,
                   in_code_block, j, new_line, branch, formatted_response,
                   original_response>>

\* line 238: the for loop is over
JoinStep ==
    /\ rpc = "for"
    /\ ~(i < Len(lines))
    /\ formatted_response' = JoinLines(lines)
    /\ rpc' = "rendered"
    /\ UNCHANGED <<inv, db, call, written, msg_chat_id, loading_message, full_response,
                   lines, i, in_code_block, j, new_line, branch,
                   original_response>>

\* lines 244-264: one iteration of the while loop over the reply
WhileB ==
    /\ rpc = "whileB"
    /\ i < Len(full_response)
    /\ formatted_response' = formatted_response \o StepB(full_response, i).out
    /\ i' = StepB(full_response, i).next
    /\ UNCHANGED <<inv, db, call, written, msg_chat_id, loading_message, full_response, rpc,
                   lines, in_code_block, j, new_line, branch,
                   original_response>>

\* lines 244, 265: the reply is scanned to its end
EndB ==
    /\ rpc = "whileB"
    /\ ~(i < Len(full_response))
    /\ original_response' = full_response
    /\ rpc' = "rendered"
    /\ UNCHANGED <<inv, db, call, written, msg_chat_id, loading_message, full_response,
                   lines, i, in_code_block, j, new_line, branch,
                   formatted_response>>

\* lines 267-270: the transport takes the display string
SendOk ==
    /\ rpc = "rendered"
    /\ loading_message' = formatted_response
    /\ rpc' = "sent"
    /\ UNCHANGED <<inv, db, call, written, msg_chat_id, full_response, lines, i,
                   in_code_block, j, new_line, branch, formatted_response,
                   original_response>>

\* lines 267-270, 272: the transport rejects the display string
SendFails ==
    /\ rpc = "rendered"
    /\ rpc' = "except"
    /\ UNCHANGED <<inv, db, call, written, msg_chat_id, loading_message, full_response,
                   lines, i, in_code_block, j, new_line, branch,
                   formatted_response, original_response>>

\* line 271: await save_message(chat_id, "bot", original_response)
SaveReply ==
    /\ rpc = "sent"
    /\ db' = Insert(db, msg_chat_id, RoleBot,
                    SavedReply(original_response, formatted_response), TypeText)
    /\ written' = [written EXCEPT ![msg_chat_id] =
                       Append(@, Turn(RoleBot,
                                      SavedReply(original_response, formatted_response),
                                      TypeText))]
    /\ rpc' = "done"
    /\ UNCHANGED <<inv, call, msg_chat_id, loading_message, full_response, lines,
                   i, in_code_block, j, new_line, branch, formatted_response,
                   original_response>>

\* lines 272-277: the failure notice replaces the loading message
FailureNotice ==
    /\ rpc = "except"
    /\ loading_message' = FailureText
    /\ rpc' = "failed"
    /\ UNCHANGED <<inv, db, call, written, msg_chat_id, full_response, lines, i,
                   in_code_block, j, new_line, branch, formatted_response,
                   original_response>>

NextRender ==
    \/ DetectFence
    \/ DetectNoFence
    \/ FenceLineStep
    \/ ProseLineStart
    \/ CodeLineStep
    \/ WhileA
    \/ EndLine
    \/ JoinStep
    \/ WhileB
    \/ EndB
    \/ SendOk
    \/ SendFails
    \/ SaveReply
    \/ FailureNotice

SpecRender == InitRender /\ [][NextRender]_vars

\* lines 190-265 are synchronous code: once entered, they run on
RenderSteps ==
    \/ DetectFence
    \/ DetectNoFence
    \/ FenceLineStep
    \/ ProseLineStart
    \/ CodeLineStep
    \/ WhileA
    \/ EndLine
    \/ JoinStep
    \/ WhileB
    \/ EndB

SpecRenderFair == SpecRender /\ WF_vars(RenderSteps)

\* ------------------------------------------------------------------------
\* Claims about the rendering (checked under SpecRender)

\* the display string is computed
Rendered == rpc \in {"rendered", "sent", "except", "done", "failed"}

\* the row of the table with the largest rowid
NewestRow == CHOOSE x \in db : \A y \in db : y.rowid <= x.rowid

\* C5: in both branches, the string appended to the transcript after a
\* successful send is exactly the raw reply, never the escaped display string.
C5_StoredIsRaw ==
    rpc = "done" =>
        /\ loading_message = formatted_response
        /\ Cardinality(db) = 2
        /\ NewestRow.chat_id = msg_chat_id
        /\ NewestRow.role = RoleBot
        /\ NewestRow.type = TypeText
        /\ NewestRow.content = full_response

\* a reply with a fence whose display string differs from it has been sent
\* and saved
C5_Witness ==
    /\ rpc = "done"
    /\ branch = "A"
    /\ formatted_response # full_response
    /\ NewestRow.content = full_response

\* the lines of the raw reply and of the display string
RawLines == SplitLines(full_response)
DisplayLines == SplitLines(formatted_response)

\* the inside-fenced-block flag when the k-th line is scanned: an odd number
\* of the lines before it start with a fence
FlagBefore(ls, k) ==
    Cardinality({ n \in 1..(k - 1) : StartsWith(ls[n], Fence) }) % 2 = 1

HasBacktick(s) == \E k \in 1..Len(s) : s[k] = Backtick

\* C6: in Branch A every line scanned while the inside-fenced-block flag is
\* true is emitted to display completely unmodified.
C6_FencedLinesUnmodified ==
    (Rendered /\ branch = "A") =>
        /\ Len(DisplayLines) = Len(RawLines)
        /\ \A k \in 1..Len(RawLines) :
               FlagBefore(RawLines, k) => DisplayLines[k] = RawLines[k]

\* a line inside a fenced block that holds an underscore or a left bracket
C6_Witness ==
    /\ Rendered
    /\ branch = "A"
    /\ \E k \in 1..Len(RawLines) :
           /\ FlagBefore(RawLines, k)
           /\ ~StartsWith(RawLines[k], Fence)
           /\ \E n \in 1..Len(RawLines[k]) : RawLines[k][n] \in {"_", "["}
           /\ DisplayLines[k] = RawLines[k]

\* C7: in Branch A an untagged fence line that opens a block is emitted as the
\* fence followed by the default language tag, an untagged fence line that
\* closes a block is emitted as the bare fence, and a fence line that carries a
\* language tag is emitted unchanged.
C7_FenceLines ==
    (Rendered /\ branch = "A") =>
        /\ Len(DisplayLines) = Len(RawLines)
        /\ \A k \in 1..Len(RawLines) :
               StartsWith(RawLines[k], Fence) =>
                   DisplayLines[k] =
                       IF RawLines[k] # Fence THEN RawLines[k]
                       ELSE IF FlagBefore(RawLines, k) THEN Fence
                       ELSE FencePython

\* an untagged fence that opens a block and an untagged fence that closes it
C7_Witness ==
    /\ Rendered
    /\ branch = "A"
    /\ \E k \in 1..Len(RawLines), n \in 1..Len(RawLines) :
           /\ RawLines[k] = Fence /\ ~FlagBefore(RawLines, k)
           /\ DisplayLines[k] = FencePython
           /\ RawLines[n] = Fence /\ FlagBefore(RawLines, n)
           /\ DisplayLines[n] = Fence

\* C8 as stated: Branch A is taken exactly when the raw reply holds a line whose
\* entire content is the fence.
C8_BranchAIffBareFenceLine ==
    branch # "none" =>
        (branch = "A" <=> \E k \in 1..Len(RawLines) : RawLines[k] = Fence)

\* C8 amended: Branch A is taken exactly when the raw reply holds three
\* backticks in a row anywhere; every other reply is rendered by Branch B.
C8_BranchAIffThreeBackticks ==
    branch # "none" =>
        /\ branch \in {"A", "B"}
        /\ branch = "A" <=>
               \E k \in 1..(Len(full_response) - 2) :
                   /\ full_response[k] = Backtick
                   /\ full_response[k + 1] = Backtick
                   /\ full_response[k + 2] = Backtick

\* a reply rendered by Branch A none of whose lines starts with a fence
C8_Witness ==
    /\ Rendered
    /\ branch = "A"
    /\ \A k \in 1..Len(RawLines) : ~StartsWith(RawLines[k], Fence)

\* an inline code span opens at index p of s: a backtick, not followed by a
\* backtick, with a closing backtick after it
SpanAt(s, p) ==
    /\ p + 1 < Len(s)
    /\ At(s, p) = Backtick
    /\ At(s, p + 1) # Backtick
    /\ \E q \in (p + 1)..(Len(s) - 1) : At(s, q) = Backtick

\* the index of the closing backtick of the span that opens at p
SpanEnd(s, p) ==
    CHOOSE q \in (p + 1)..(Len(s) - 1) :
        /\ At(s, q) = Backtick
        /\ \A r \in (p + 1)..(q - 1) : At(s, r) # Backtick

\* C9: in both branches, when the scan of prose meets the opening backtick of
\* an inline code span, every character from it to the closing backtick is
\* copied to display unmodified and the scan goes on after the closing backtick.
C9_InlineSpanCopied ==
    [][ /\ (rpc = "whileA" /\ j < Len(At(lines, i)) /\ SpanAt(At(lines, i), j)) =>
              LET line == At(lines, i)
                  e == SpanEnd(line, j)
              IN  /\ new_line' = new_line \o SubSeq(line, j + 1, e + 1)
                  /\ j' = e + 1
                  /\ rpc' = "whileA"
        /\ (rpc = "whileB" /\ i < Len(full_response) /\ SpanAt(full_response, i)) =>
              LET e == SpanEnd(full_response, i)
              IN  /\ formatted_response' =
                         formatted_response \o SubSeq(full_response, i + 1, e + 1)
                  /\ i' = e + 1
                  /\ rpc' = "whileB"
      ]_vars

\* Branch A has just copied an inline code span that holds an underscore
C9_Witness ==
    /\ rpc = "whileA"
    /\ \E p \in 0..(j - 1) :
           LET line == At(lines, i)
           IN  /\ SpanAt(line, p)
               /\ SpanEnd(line, p) + 1 = j
               /\ \E n \in (p + 1)..(j - 1) : At(line, n) = "_"
               /\ Len(new_line) >= j - p
               /\ SubSeq(new_line, Len(new_line) - (j - p) + 1, Len(new_line))
                      = SubSeq(line, p + 1, j)

\* the raw reply with every underscore and left bracket escaped
EscapedText(s) ==
    Flatten([k \in 1..Len(s) |->
                IF s[k] = "_" THEN <<"\\", "_">>
                ELSE IF s[k] = "[" THEN <<"\\", "[">>
                ELSE <<s[k]>>])

\* C10: for every raw reply without a backtick, display is the raw reply with
\* every underscore replaced by backslash-underscore and every left bracket by
\* backslash-left-bracket, every other character unchanged, in the same order.
C10_NoBacktickEscaping ==
    (Rendered /\ ~HasBacktick(full_response)) =>
        formatted_response = EscapedText(full_response)

\* a reply without a backtick that holds an underscore, a left bracket, an
\* asterisk and a right bracket
C10_Witness ==
    /\ Rendered
    /\ ~HasBacktick(full_response)
    /\ \A c \in {"_", "[", "*", "]"} :
           \E k \in 1..Len(full_response) : full_response[k] = c
    /\ formatted_response = EscapedText(full_response)

\* the indices of s that the scan of prose meets outside any inline code span,
\* from index k on
RECURSIVE Met(_, _)
Met(s, k) ==
    IF k >= Len(s) THEN {}
    ELSE IF SpanAt(s, k) THEN {k} \cup Met(s, SpanEnd(s, k) + 1)
    ELSE {k} \cup Met(s, k + 1)

\* the scan of s meets at index p a backtick with no backtick after it
UnclosedAt(s, p) ==
    /\ p \in Met(s, 0)
    /\ At(s, p) = Backtick
    /\ \A q \in (p + 1)..(Len(s) - 1) : At(s, q) # Backtick

\* the k-th line of the raw reply is scanned as prose by Branch A
ProseLine(k) == ~FlagBefore(RawLines, k) /\ ~StartsWith(RawLines[k], Fence)

\* s ends with t
EndsWith(s, t) ==
    Len(s) >= Len(t) /\ SubSeq(s, Len(s) - Len(t) + 1, Len(s)) = t

\* C11 as stated: in Branch A, on a prose line, from a backtick that is never
\* closed on the line the whole remainder of the line is copied to display
\* literally.
C11_UnclosedTailLiteral ==
    (Rendered /\ branch = "A") =>
        \A k \in 1..Len(RawLines) : \A p \in 0..(Len(RawLines[k]) - 1) :
            (ProseLine(k) /\ UnclosedAt(RawLines[k], p)) =>
                EndsWith(DisplayLines[k], Slice(RawLines[k], p, Len(RawLines[k])))

\* C11 amended: in Branch A, on a prose line, a backtick that is never closed
\* on the line is itself copied to display literally, with no backslash put
\* before it, and every underscore and left bracket after it is escaped as in
\* prose.
C11_UnclosedBacktickLiteral ==
    (Rendered /\ branch = "A") =>
        \A k \in 1..Len(RawLines) : \A p \in 0..(Len(RawLines[k]) - 1) :
            (ProseLine(k) /\ UnclosedAt(RawLines[k], p)) =>
                LET tail == <<Backtick>> \o
                                EscapedText(Slice(RawLines[k], p + 1, Len(RawLines[k])))
                IN  /\ EndsWith(DisplayLines[k], tail)
                    /\ ~EndsWith(DisplayLines[k], <<"\\">> \o tail)

\* a prose line of Branch A with a backtick that is never closed and an
\* underscore after it
C11_Witness ==
    /\ Rendered
    /\ branch = "A"
    /\ \E k \in 1..Len(RawLines) : \E p \in 0..(Len(RawLines[k]) - 1) :
           /\ ProseLine(k)
           /\ UnclosedAt(RawLines[k], p)
           /\ \E q \in (p + 1)..(Len(RawLines[k]) - 1) : At(RawLines[k], q) = "_"

\* C12: in Branch B every backtick that the scan meets and that has no closing
\* backtick anywhere later in the string is emitted to display as
\* backslash-backtick, wherever it stands, the last character included.
C12_UnclosedBacktickEscaped ==
    (Rendered /\ branch = "B") =>
        \A p \in 0..(Len(full_response) - 1) :
            UnclosedAt(full_response, p) =>
                EndsWith(formatted_response,
                         <<"\\", Backtick>> \o
                             EscapedText(Slice(full_response, p + 1, Len(full_response))))

\* C15: rendering is total and terminates: each iteration of a character scan
\* advances the scan position by at least one and never past the end of the
\* line (Branch A) or of the string (Branch B), every step of the rendering
\* has a next step, and a display string is produced.
C15_RenderTerminates ==
    /\ [][ /\ (rpc = "whileA" /\ rpc' = "whileA") =>
                  (j' > j /\ j' <= Len(At(lines, i)))
           /\ (rpc = "whileB" /\ rpc' = "whileB") =>
                  (i' > i /\ i' <= Len(full_response))
         ]_vars
    /\ [](Rendered \/ ENABLED RenderSteps)
    /\ <>Rendered

\* a display string is produced for a reply with a fence that is never closed
\* and a backtick that is never closed
C15_Witness ==
    /\ Rendered
    /\ branch = "A"
    /\ FlagBefore(RawLines, Len(RawLines) + 1)
    /\ \E k \in 1..Len(RawLines) : \E p \in 0..(Len(RawLines[k]) - 1) :
           ProseLine(k) /\ UnclosedAt(RawLines[k], p)

\* s holds no backtick, underscore or bracket
Plain(s) == \A k \in 1..Len(s) : s[k] \notin {Backtick, "_", "[", "]"}

\* C16: for every s without backticks, underscores or brackets, the display of
\* s equals s, and rendering that display again yields the same display.
C16_PlainIdempotent ==
    (Rendered /\ Plain(full_response)) =>
        /\ formatted_response = full_response
        /\ RenderDisplay(full_response) = formatted_response
        /\ RenderDisplay(formatted_response) = formatted_response

\* a plain reply of several lines with an asterisk
C16_Witness ==
    /\ Rendered
    /\ Plain(full_response)
    /\ Len(full_response) >= 3
    /\ \E k \in 1..Len(full_response) : full_response[k] = "*"
    /\ \E k \in 1..Len(full_response) : full_response[k] = "\n"
    /\ RenderDisplay(formatted_response) = formatted_response

\* the language tag that lines 206-207 append stands at index b of d: after a
\* fence that is a whole line so far, and it ends the line
TagAt(d, b) ==
    /\ b > 3
    /\ SubSeq(d, b - 3, b + 5) = FencePython
    /\ (b = 4 \/ d[b - 4] = "\n")
    /\ (b + 5 = Len(d) \/ d[b + 6] = "\n")

\* r from index a on is d from index b on without some escape backslashes (each
\* before an underscore, a left bracket or a backtick) and without some
\* language tags
RECURSIVE Recovers(_, _, _, _)
Recovers(r, a, d, b) ==
    IF b > Len(d) THEN a > Len(r)
    ELSE \/ a <= Len(r) /\ r[a] = d[b] /\ Recovers(r, a + 1, d, b + 1)
         \/ /\ d[b] = "\\"
            /\ b < Len(d)
            /\ d[b + 1] \in {"_", "[", Backtick}
            /\ Recovers(r, a, d, b + 1)
         \/ TagAt(d, b) /\ Recovers(r, a, d, b + 6)

\* C20: rendering only inserts characters: in both branches the raw reply is
\* recovered from display by deleting escape backslashes (before an
\* underscore, a left bracket or a backtick) and language tags appended to
\* untagged fences, and the number of lines is unchanged.
C20_OnlyInserts ==
    rpc = "rendered" =>
        /\ Recovers(full_response, 1, formatted_response, 1)
        /\ Len(DisplayLines) = Len(RawLines)

\* a display string with an escape backslash and a language tag more than the
\* raw reply
C20_Witness ==
    /\ rpc = "rendered"
    /\ branch = "A"
    /\ Len(formatted_response) >= Len(full_response) + 7
    /\ Recovers(full_response, 1, formatted_response, 1)

\* ------------------------------------------------------------------------
\* process_content, several invocations in flight (lines 136-277)
\*
\* The event loop runs one invocation until its next await; the steps below
\* are the stretches of code between awaits.  pc is the position:
\*   "idle"      not begun                "begun"    lines 137-139 done
\*   "read"      lines 141-150 done       "saved"    lines 152-182 done
\*   "rendered"  lines 185-265 done       "sent"     lines 267-270 done
\*   "done"      line 271 done            "except"   an exception reached line 272
\*   "failed"    lines 273-277 done       "raised"   an exception left the function
\* read_at, user_row, reply_row and alone are history fields: the newest rowid
\* when the transcript was read, the rowids of the two turns the invocation
\* wrote, and whether no other invocation of the session was in flight with it.

ContentTypes == {"text", "photo", "audio"}

\* message.text of a text message
Texts == {TextOne, TextTwo}

\* response.text
Replies == { <<"a">>, <<"_", "\n">> \o Fence }

\* HistoryEntry keeping the stored role
HistoryEntry_RoleKept(entry) ==
    [role |-> entry.role, parts |-> <<[kind |-> "text", data |-> entry.content]>>]

\* lines 145-150: the request element of a text turn
HistoryEntry(entry) ==
    [role |-> IF entry.role = RoleUser THEN "user" ELSE "model",
     parts |-> <<[kind |-> "text", data |-> entry.content]>>]

\* IsTextEntry taking every kind of turn
IsTextEntry_AnyKind(entry) == TRUE

\* line 144: if entry["type"] == "text"
IsTextEntry(entry) == entry.type = TypeText

\* lines 143-150: content after the loop over history
RECURSIVE HistoryContent(_)
HistoryContent(history) ==
    IF history = <<>> THEN <<>>
    ELSE IF IsTextEntry(Head(history))
         THEN <<HistoryEntry(Head(history))>> \o HistoryContent(Tail(history))
    ELSE HistoryContent(Tail(history))

\* lines 154, 159-168, 173-182: the request element of the new message
MessageEntry(content_type, text) ==
    IF content_type = "text"
    THEN [role |-> "user", parts |-> <<[kind |-> "text", data |-> text]>>]
    ELSE IF content_type = "photo"
    THEN [role |-> "user", parts |-> <<[kind |-> "file_data", data |-> <<"image/jpeg">>]>>]
    ELSE [role |-> "user", parts |-> <<[kind |-> "file_data", data |-> <<"audio/mp3">>]>>]

\* lines 153, 158, 172: the turn saved for the new message
MessageTurn(content_type, text) ==
    IF content_type = "text" THEN Turn(RoleUser, text, TypeText)
    ELSE IF content_type = "photo" THEN Turn(RoleUser, ContentPhoto, TypeImage)
    ELSE Turn(RoleUser, ContentAudio, TypeAudio)

\* NoticeText showing the exception to the user
NoticeText_Detail(e) == <<e>>

\* line 275: the text of the failure notice, whatever the exception
NoticeText(e) == FailureText

InFlight(p) == inv[p].pc \notin {"idle", "done", "failed", "raised"}

\* an exchange stored by an earlier run of the bot in session 1
PriorRows ==
    Insert(Insert({}, 1, RoleUser, TextOne, TypeText), 1, RoleBot, <<"a">>, TypeText)

InitProcess ==
    /\ inv = NoInvocations
    /\ db = PriorRows
    /\ written = [c \in ChatIds |->
                      IF c = 1 THEN <<Turn(RoleUser, TextOne, TypeText),
                                      Turn(RoleBot, <<"a">>, TypeText)>>
                      ELSE <<>>]
    /\ call = NoCall
    /\ RenderIdle

\* lines 137-139: a message arrives, the loading message is shown
Begin(p, c, t, text) ==
    /\ inv[p].pc = "idle"
    /\ (t = "text") = (text \in Texts)
    /\ inv' = [q \in Procs |->
                  IF q = p
                  THEN [inv[p] EXCEPT !.pc = "begun", !.chat_id = c,
                                      !.content_type = t, !.text = text,
                                      !.loading_message = LoadingText,
                                      !.alone = \A r \in Procs \ {p} :
                                          ~(InFlight(r) /\ inv[r].chat_id = c)]
                  ELSE IF InFlight(q) /\ inv[q].chat_id = c
                  THEN [inv[q] EXCEPT !.alone = FALSE]
                  ELSE inv[q]]
    /\ UNCHANGED <<db, call, written, renderVars>>

\* lines 141-150: the transcript is read and the request is begun
ReadHistory(p) ==
    /\ inv[p].pc = "begun"
    /\ LET history == get_chat_history(db, inv[p].chat_id, DefaultMaxTokens)
       IN  inv' = [inv EXCEPT ![p].pc = "read",
                              ![p].history = history,
                              ![p].content = HistoryContent(history),
                              ![p].read_at = NextRowid(db) - 1]
    /\ UNCHANGED <<db, call, written, renderVars>>

\* lines 152-182: the user's turn is saved and the message ends the request
SaveUser(p) ==
    /\ inv[p].pc = "read"
    /\ LET m == MessageTurn(inv[p].content_type, inv[p].text)
       IN  /\ db' = Insert(db, inv[p].chat_id, m.role, m.content, m.type)
           /\ written' = [written EXCEPT ![inv[p].chat_id] = Append(@, m)]
    /\ inv' = [inv EXCEPT ![p].pc = "saved",
                          ![p].content = Append(@, MessageEntry(inv[p].content_type,
                                                                inv[p].text)),
                          ![p].user_row = NextRowid(db)]
    /\ UNCHANGED <<call, renderVars>>

\* lines 156, 170: the download of the photo or the audio raises, outside the try
DownloadFails(p) ==
    /\ inv[p].pc = "read"
    /\ inv[p].content_type \in {"photo", "audio"}
    /\ inv' = [inv EXCEPT ![p].pc = "raised"]
    /\ UNCHANGED <<db, call, written, renderVars>>

\* lines 185-265: the model answers and the reply is rendered
Generate(p, r) ==
    /\ inv[p].pc = "saved"
    /\ inv' = [inv EXCEPT ![p].pc = "rendered",
                          ![p].full_response = r,
                          ![p].formatted_response = RenderDisplay(r),
                          ![p].original_response = r]
    /\ UNCHANGED <<db, call, written, renderVars>>

\* lines 185-186, 272: the model call raises
GenerateFails(p) ==
    /\ inv[p].pc = "saved"
    /\ inv' = [inv EXCEPT ![p].pc = "except", ![p].e = "model"]
    /\ UNCHANGED <<db, call, written, renderVars>>

\* lines 267-270: the transport takes the display string
Send(p) ==
    /\ inv[p].pc = "rendered"
    /\ inv' = [inv EXCEPT ![p].pc = "sent",
                          ![p].loading_message = inv[p].formatted_response]
    /\ UNCHANGED <<db, call, written, renderVars>>

\* lines 267-270, 272: the transport rejects the display string
SendRejected(p) ==
    /\ inv[p].pc = "rendered"
    /\ inv' = [inv EXCEPT ![p].pc = "except", ![p].e = "transport"]
    /\ UNCHANGED <<db, call, written, renderVars>>

\* line 271: the reply is saved
SaveBot(p) ==
    /\ inv[p].pc = "sent"
    /\ LET reply == SavedReply(inv[p].original_response, inv[p].formatted_response)
       IN  /\ db' = Insert(db, inv[p].chat_id, RoleBot, reply, TypeText)
           /\ written' = [written EXCEPT ![inv[p].chat_id] =
                              Append(@, Turn(RoleBot, reply, TypeText))]
    /\ inv' = [inv EXCEPT ![p].pc = "done", ![p].reply_row = NextRowid(db)]
    /\ UNCHANGED <<call, renderVars>>

\* lines 272-277: the failure notice replaces the loading message
Notice(p) ==
    /\ inv[p].pc = "except"
    /\ inv' = [inv EXCEPT ![p].pc = "failed",
                          ![p].loading_message = NoticeText(inv[p].e)]
    /\ UNCHANGED <<db, call, written, renderVars>>

NextProcess ==
    \/ \E p \in Procs, c \in ChatIds, t \in ContentTypes, text \in Texts \cup {None} :
           Begin(p, c, t, text)
    \/ \E p \in Procs : ReadHistory(p)
    \/ \E p \in Procs : SaveUser(p)
    \/ \E p \in Procs : DownloadFails(p)
    \/ \E p \in Procs, r \in Replies : Generate(p, r)
    \/ \E p \in Procs : GenerateFails(p)
    \/ \E p \in Procs : Send(p)
    \/ \E p \in Procs : SendRejected(p)
    \/ \E p \in Procs : SaveBot(p)
    \/ \E p \in Procs : Notice(p)

SpecProcess == InitProcess /\ [][NextProcess]_vars

\* ------------------------------------------------------------------------
\* Claims about process_content (checked under SpecProcess)

\* the rows an invocation wrote: those that no earlier run of the bot stored
ReplyRows == { x \in db \ PriorRows : x.role = RoleBot }

\* C17: whenever the model call fails or the transport rejects the display,
\* the exception is caught (the handler of line 272 can run), the loading
\* message is replaced by the one generic failure notice, and no reply turn
\* is appended for that request; the user turn it saved remains stored.
C17_FailureCaught ==
    /\ \A p \in Procs :
           inv[p].pc \in {"except", "failed"} =>
               /\ inv[p].e \in {"model", "transport"}
               /\ inv[p].pc = "except" => ENABLED Notice(p)
               /\ inv[p].pc = "failed" => inv[p].loading_message = FailureText
               /\ inv[p].reply_row = 0
               /\ \E x \in db :
                      /\ x.rowid = inv[p].user_row
                      /\ x.chat_id = inv[p].chat_id
                      /\ x.role = RoleUser
                      /\ x.content = MessageTurn(inv[p].content_type, inv[p].text).content
    /\ Cardinality(ReplyRows) = Cardinality({ p \in Procs : inv[p].pc = "done" })

\* one request failed at the model call and another at the transport, a third
\* state of affairs being a reply that was saved
C17_Witness ==
    \E p, q \in Procs :
        /\ inv[p].pc = "failed"
        /\ inv[p].e = "transport"
        /\ inv[p].loading_message = FailureText
        /\ inv[q].pc = "failed"
        /\ inv[q].e = "model"
        /\ inv[q].chat_id = inv[p].chat_id
        /\ Cardinality(SessionRows(inv[p].chat_id) \ PriorRows) = 2

\* q read the transcript and appended its user turn while p, of the same
\* session, had saved its user turn and not yet its reply
Interleaved(p, q) ==
    /\ p # q
    /\ inv[p].chat_id = inv[q].chat_id
    /\ inv[p].user_row > 0
    /\ inv[q].user_row > inv[p].user_row
    /\ \/ InFlight(p)
       \/ inv[p].reply_row > inv[q].user_row
    /\ \A x \in SessionRows(inv[p].chat_id) :
           ~(inv[p].user_row < x.rowid /\ x.rowid < inv[q].user_row)

\* the text-kind turns among the rows of session c up to rowid n, oldest first
TextTurnsUpTo(c, n) ==
    SelectSeq(Ascending({ x \in db : x.chat_id = c /\ x.rowid <= n }),
              LAMBDA t : t.type = TypeText)

\* the request element that stands for a stored text turn
ElementOf(t) ==
    [role |-> IF t.role = RoleBot THEN "model" ELSE "user",
     parts |-> <<[kind |-> "text", data |-> t.content]>>]

\* C18: with two invocations in flight for one session, when the second reads
\* the transcript and appends its user turn before the first one's reply is
\* appended, the stored transcript holds two user turns in a row and the
\* second model request is made of the turns read, without the first reply.
C18_InterleavedRequests ==
    \A p, q \in Procs :
        Interleaved(p, q) =>
            /\ \E k \in 1..(Len(Turns(inv[p].chat_id)) - 1) :
                   /\ Turns(inv[p].chat_id)[k].role = RoleUser
                   /\ Turns(inv[p].chat_id)[k + 1].role = RoleUser
            /\ inv[q].read_at < inv[q].user_row
            /\ inv[p].reply_row = 0 \/ inv[p].reply_row > inv[q].read_at
            /\ LET seen == TextTurnsUpTo(inv[q].chat_id, inv[q].read_at)
               IN  /\ Len(inv[q].content) = Len(seen) + 1
                   /\ \A k \in 1..Len(seen) : inv[q].content[k] = ElementOf(seen[k])

\* the interleaving has happened: both replies are stored after both user turns
C18_Witness ==
    \E p, q \in Procs :
        /\ Interleaved(p, q)
        /\ inv[p].pc = "done"
        /\ inv[q].pc = "done"
        /\ inv[q].read_at >= inv[p].user_row
        /\ inv[q].reply_row > inv[p].reply_row
        /\ Len(inv[q].content) = 4

\* the turns that were stored in the session of p before p saved its own
StoredBefore(p) ==
    Ascending({ x \in db : x.chat_id = inv[p].chat_id /\ x.rowid < inv[p].user_row })

\* C19: for a text message handled with no other request of the session in
\* flight, the window was read before the new user turn was saved, and the
\* model request is the text-kind turns of the window, in window order,
\* followed by the new message once, as the last element; image and audio
\* turns are in the window and cost budget but are not in the request.
C19_RequestOfTextTurns ==
    \A p \in Procs :
        (/\ inv[p].content_type = "text"
         /\ inv[p].alone
         /\ inv[p].user_row > 0) =>
            LET window == inv[p].history
                texts == SelectSeq(window, LAMBDA t : t.type = TypeText)
                request == inv[p].content
            IN  /\ window = StoredBefore(p)
                /\ TotalCost(window) <= DefaultMaxTokens
                /\ Len(request) = Len(texts) + 1
                /\ \A k \in 1..Len(texts) : request[k] = ElementOf(texts[k])
                /\ request[Len(request)] =
                       [role |-> "user",
                        parts |-> <<[kind |-> "text", data |-> inv[p].text]>>]
                /\ \A k \in 1..Len(request) : request[k].parts[1].kind = "text"

\* a text message after a photo and the reply to it: the window holds the
\* photo turn, the request does not
C19_Witness ==
    \E p \in Procs :
        /\ inv[p].content_type = "text"
        /\ inv[p].alone
        /\ inv[p].pc = "saved"
        /\ \E k \in 1..Len(inv[p].history) :
               /\ inv[p].history[k].type = TypeImage
               /\ Cost(inv[p].history[k]) > 0
        /\ \E k \in 1..Len(inv[p].history) :
               inv[p].history[k].role = RoleBot
        /\ Len(inv[p].content) < Len(inv[p].history) + 1

====
